---- MODULE Spec2Model ----
(***************************************************************************)
(* Model of include/cmsis_os2_static_alloc.h: the six OS_*_STATIC macros.  *)
(*                                                                         *)
(* A macro is a pure function from its arguments to a list of file-scope   *)
(* declarations (token pasting builds the identifiers, stringification the *)
(* name literal).  The translation unit is a state machine: each use of a  *)
(* macro is handed to the compiler, which either adds the declarations to  *)
(* the symbol table or stops with a diagnostic.  After translation the     *)
(* program runs and the RTOS is handed the attributes records.             *)
(***************************************************************************)
EXTENDS Integers, Sequences, FiniteSets, TLC

VARIABLES
    pc,        \* "compile", "failed" (a diagnostic ended the build) or "run"
    lang,      \* "C" or "C++": the header is usable from both (extern "C")
    abi,       \* sizeof of the RTOS port's types, fixed by the target
    symtab,    \* identifier -> the static object declared under it
    gens,      \* the macro invocations accepted so far, in order
    diag,      \* the macro and name whose use failed, and the diagnostic
    created,   \* the creation calls made at run time
    touched    \* the object the RTOS wrote last ("" when none)

vars == <<pc, lang, abi, symtab, gens, diag, created, touched>>

----------------------------------------------------------------------------
(* Bounds and inputs *)

\* Width in bits of size_t; 16 is the least width C allows (SIZE_MAX >= 65535).
SizeBits == 16

\* Macro invocations accepted in one translation unit.
MaxDecls == 2

SizeMod == 2 ^ SizeBits

\* Largest object the compiler accepts (PTRDIFF_MAX).
MaxObjectSize == 2 ^ (SizeBits - 1) - 1

Names == {"a", "a_queue"}

\* Sizing arguments: negative, zero, small, and too large for size_t once
\* multiplied by a 4-byte element.
Counts == { -(2 ^ (SizeBits - 2) - 1), -1, 0, 8, 32, 256, 2 ^ (SizeBits - 2) + 1 }

Priorities == {8, 24}

ElemTypes == {"uint8_t", "uint32_t"}

SemCounts == {1, 5}

\* Two targets: a 32-bit port (4-byte stack words) and an 8-bit port.
Targets ==
    { [StackType_t |-> 4, StaticTask_t |-> 92, StaticQueue_t |-> 80,
       StaticSemaphore_t |-> 80, StaticTimer_t |-> 44, StaticMemoryPool_t |-> 24],
      [StackType_t |-> 1, StaticTask_t |-> 40, StaticQueue_t |-> 31,
       StaticSemaphore_t |-> 31, StaticTimer_t |-> 24, StaticMemoryPool_t |-> 12] }

----------------------------------------------------------------------------
(* The preprocessor and the expression language of the initializers *)

\* name##_suffix
Paste(name, suffix) == name \o suffix

\* #name: a string literal, not an identifier
Stringify(name) == [op |-> "str", s |-> name, n |-> 0]

Lit(n) == [op |-> "lit", s |-> "", n |-> n]

\* &id
AddrOf(id) == [op |-> "addr", s |-> id, n |-> 0]

\* id used as a value, id an array: decays to a pointer to its first element
ArrayName(id) == [op |-> "array", s |-> id, n |-> 0]

\* sizeof(id)
SizeofObj(id) == [op |-> "sizeof", s |-> id, n |-> 0]

\* (osPriority_t)(level): osPriority_t is a 32-bit enum, the cast keeps the
\* value of every int constant
CastPriority(level) == [op |-> "cast", s |-> "osPriority_t", n |-> level]

\* a named constant of the RTOS API
EnumConst(id) == [op |-> "enum", s |-> id, n |-> 0]

\* sizeof(type)
SizeofType(type) ==
    CASE type = "uint8_t"  -> 1
      [] type = "uint32_t" -> 4
      [] OTHER             -> abi[type]

\* (count) * sizeof(type): count is converted to size_t and the product is
\* taken modulo 2^SizeBits
MulSizeT(count, size) == ((count % SizeMod) * size) % SizeMod

\* A declaration: static [const] type id[len] = { init };
Decl(id, type, isArray, len, isConst, init) ==
    [id |-> id, type |-> type, isArray |-> isArray, len |-> len,
     isConst |-> isConst, init |-> init]

----------------------------------------------------------------------------
(* The macros *)

\* Variant: the stack fields placed before the control-block fields.
OS_THREAD_STATIC_StackFirst(name, stack_words, priority_level) ==
    << Decl(Paste(name, "_stack"), "StackType_t", TRUE, stack_words, FALSE, <<>>),
       Decl(Paste(name, "_cb"), "StaticTask_t", FALSE, 0, FALSE, <<>>),
       Decl(Paste(name, "_attributes"), "osThreadAttr_t", FALSE, 0, TRUE,
            << Stringify(name),
               Lit(0),
               ArrayName(Paste(name, "_stack")),
               SizeofObj(Paste(name, "_stack")),
               AddrOf(Paste(name, "_cb")),
               SizeofObj(Paste(name, "_cb")),
               CastPriority(priority_level),
               Lit(0),
               Lit(0) >>) >>

\* Variant: the priority field fixed to osPriorityNormal (24).
OS_THREAD_STATIC_PrioNormal(name, stack_words, priority_level) ==
    << Decl(Paste(name, "_stack"), "StackType_t", TRUE, stack_words, FALSE, <<>>),
       Decl(Paste(name, "_cb"), "StaticTask_t", FALSE, 0, FALSE, <<>>),
       Decl(Paste(name, "_attributes"), "osThreadAttr_t", FALSE, 0, TRUE,
            << Stringify(name),
               Lit(0),
               AddrOf(Paste(name, "_cb")),
               SizeofObj(Paste(name, "_cb")),
               ArrayName(Paste(name, "_stack")),
               SizeofObj(Paste(name, "_stack")),
               CastPriority(24),
               Lit(0),
               Lit(0) >>) >>

\* Variant: the stack-size field holds the word count, not sizeof(name_stack).
OS_THREAD_STATIC_WordCount(name, stack_words, priority_level) ==
    << Decl(Paste(name, "_stack"), "StackType_t", TRUE, stack_words, FALSE, <<>>),
       Decl(Paste(name, "_cb"), "StaticTask_t", FALSE, 0, FALSE, <<>>),
       Decl(Paste(name, "_attributes"), "osThreadAttr_t", FALSE, 0, TRUE,
            << Stringify(name),
               Lit(0),
               AddrOf(Paste(name, "_cb")),
               SizeofObj(Paste(name, "_cb")),
               ArrayName(Paste(name, "_stack")),
               Lit(stack_words),
               CastPriority(priority_level),
               Lit(0),
               Lit(0) >>) >>

OS_THREAD_STATIC(name, stack_words, priority_level) ==
    << Decl(Paste(name, "_stack"), "StackType_t", TRUE, stack_words, FALSE, <<>>),
       Decl(Paste(name, "_cb"), "StaticTask_t", FALSE, 0, FALSE, <<>>),
       Decl(Paste(name, "_attributes"), "osThreadAttr_t", FALSE, 0, TRUE,
            << Stringify(name),
               Lit(0),
               AddrOf(Paste(name, "_cb")),
               SizeofObj(Paste(name, "_cb")),
               ArrayName(Paste(name, "_stack")),
               SizeofObj(Paste(name, "_stack")),
               CastPriority(priority_level),
               Lit(0),
               Lit(0) >>) >>

\* Variant: the attributes record is not const.
OS_MESSAGE_QUEUE_STATIC_NonConst(name, queue_size, type) ==
    << Decl(Paste(name, "_cb"), "StaticQueue_t", FALSE, 0, FALSE, <<>>),
       Decl(Paste(name, "_queue_mem"), "uint8_t", TRUE,
            MulSizeT(queue_size, SizeofType(type)), FALSE, <<>>),
       Decl(Paste(name, "_attributes"), "osMessageQueueAttr_t", FALSE, 0, FALSE,
            << Stringify(name),
               Lit(0),
               AddrOf(Paste(name, "_cb")),
               SizeofObj(Paste(name, "_cb")),
               ArrayName(Paste(name, "_queue_mem")),
               SizeofObj(Paste(name, "_queue_mem")) >>) >>

OS_MESSAGE_QUEUE_STATIC(name, queue_size, type) ==
    << Decl(Paste(name, "_cb"), "StaticQueue_t", FALSE, 0, FALSE, <<>>),
       Decl(Paste(name, "_queue_mem"), "uint8_t", TRUE,
            MulSizeT(queue_size, SizeofType(type)), FALSE, <<>>),
       Decl(Paste(name, "_attributes"), "osMessageQueueAttr_t", FALSE, 0, TRUE,
            << Stringify(name),
               Lit(0),
               AddrOf(Paste(name, "_cb")),
               SizeofObj(Paste(name, "_cb")),
               ArrayName(Paste(name, "_queue_mem")),
               SizeofObj(Paste(name, "_queue_mem")) >>) >>

OS_MUTEX_STATIC(name) ==
    << Decl(Paste(name, "_cb"), "StaticSemaphore_t", FALSE, 0, FALSE, <<>>),
       Decl(Paste(name, "_attributes"), "osMutexAttr_t", FALSE, 0, TRUE,
            << Stringify(name),
               EnumConst("osMutexPrioInherit"),
               AddrOf(Paste(name, "_cb")),
               SizeofObj(Paste(name, "_cb")) >>) >>

OS_SEMAPHORE_STATIC(name) ==
    << Decl(Paste(name, "_cb"), "StaticSemaphore_t", FALSE, 0, FALSE, <<>>),
       Decl(Paste(name, "_attributes"), "osSemaphoreAttr_t", FALSE, 0, TRUE,
            << Stringify(name),
               Lit(0),
               AddrOf(Paste(name, "_cb")),
               SizeofObj(Paste(name, "_cb")) >>) >>

\* Variant: the control-block size copied from the semaphore macro's type.
OS_TIMER_STATIC_SemSize(name) ==
    << Decl(Paste(name, "_cb"), "StaticTimer_t", FALSE, 0, FALSE, <<>>),
       Decl(Paste(name, "_attributes"), "osTimerAttr_t", FALSE, 0, TRUE,
            << Stringify(name),
               Lit(0),
               AddrOf(Paste(name, "_cb")),
               Lit(SizeofType("StaticSemaphore_t")) >>) >>

\* Variant: identifiers that carry the kind, name_timer_cb and
\* name_timer_attributes.
OS_TIMER_STATIC_KindSuffix(name) ==
    << Decl(Paste(name, "_timer_cb"), "StaticTimer_t", FALSE, 0, FALSE, <<>>),
       Decl(Paste(name, "_timer_attributes"), "osTimerAttr_t", FALSE, 0, TRUE,
            << Stringify(name),
               Lit(0),
               AddrOf(Paste(name, "_timer_cb")),
               SizeofObj(Paste(name, "_timer_cb")) >>) >>

OS_TIMER_STATIC(name) ==
    << Decl(Paste(name, "_cb"), "StaticTimer_t", FALSE, 0, FALSE, <<>>),
       Decl(Paste(name, "_attributes"), "osTimerAttr_t", FALSE, 0, TRUE,
            << Stringify(name),
               Lit(0),
               AddrOf(Paste(name, "_cb")),
               SizeofObj(Paste(name, "_cb")) >>) >>

\* Variant: the storage-size field copied from the control-block size field.
OS_MEMORY_POOL_STATIC_CbSize(name, pool_size, type) ==
    << Decl(Paste(name, "_cb"), "StaticMemoryPool_t", FALSE, 0, FALSE, <<>>),
       Decl(Paste(name, "_mem"), "uint8_t", TRUE,
            MulSizeT(pool_size, SizeofType(type)), FALSE, <<>>),
       Decl(Paste(name, "_attributes"), "osMemoryPoolAttr_t", FALSE, 0, TRUE,
            << Stringify(name),
               Lit(0),
               AddrOf(Paste(name, "_cb")),
               SizeofObj(Paste(name, "_cb")),
               ArrayName(Paste(name, "_mem")),
               SizeofObj(Paste(name, "_cb")) >>) >>

OS_MEMORY_POOL_STATIC(name, pool_size, type) ==
    << Decl(Paste(name, "_cb"), "StaticMemoryPool_t", FALSE, 0, FALSE, <<>>),
       Decl(Paste(name, "_mem"), "uint8_t", TRUE,
            MulSizeT(pool_size, SizeofType(type)), FALSE, <<>>),
       Decl(Paste(name, "_attributes"), "osMemoryPoolAttr_t", FALSE, 0, TRUE,
            << Stringify(name),
               Lit(0),
               AddrOf(Paste(name, "_cb")),
               SizeofObj(Paste(name, "_cb")),
               ArrayName(Paste(name, "_mem")),
               SizeofObj(Paste(name, "_mem")) >>) >>

\* An invocation: which macro, with which arguments (count, type and prio are
\* 0 / "" where the macro has no such parameter).
Invocation(kind, name, count, type, prio) ==
    [kind |-> kind, name |-> name, count |-> count, type |-> type, prio |-> prio]

Expand(g) ==
    CASE g.kind = "thread"    -> OS_THREAD_STATIC(g.name, g.count, g.prio)
      [] g.kind = "queue"     -> OS_MESSAGE_QUEUE_STATIC(g.name, g.count, g.type)
      [] g.kind = "mutex"     -> OS_MUTEX_STATIC(g.name)
      [] g.kind = "semaphore" -> OS_SEMAPHORE_STATIC(g.name)
      [] g.kind = "timer"     -> OS_TIMER_STATIC(g.name)
      [] g.kind = "pool"      -> OS_MEMORY_POOL_STATIC(g.name, g.count, g.type)

----------------------------------------------------------------------------
(* The compiler: file-scope declarations of one translation unit *)

\* Size in bytes of a declared object.
ObjSize(o) == IF o.isArray THEN o.len * SizeofType(o.type) ELSE SizeofType(o.type)

\* Value of an initializer expression, the objects declared so far being st.
Eval(e, st) ==
    CASE e.op = "lit"    -> [k |-> "int", s |-> "", n |-> e.n]
      [] e.op = "str"    -> [k |-> "str", s |-> e.s, n |-> 0]
      [] e.op = "addr"   -> [k |-> "ptr", s |-> e.s, n |-> 0]
      [] e.op = "array"  -> [k |-> "ptr", s |-> e.s, n |-> 0]
      [] e.op = "sizeof" -> [k |-> "int", s |-> "", n |-> ObjSize(st[e.s])]
      [] e.op = "cast"   -> [k |-> "int", s |-> "", n |-> e.n]
      [] e.op = "enum"   -> [k |-> "enum", s |-> e.s, n |-> 0]

\* The object a declaration defines.
Object(d, st) ==
    [type |-> d.type, isArray |-> d.isArray, len |-> d.len, isConst |-> d.isConst,
     hasInit |-> d.init # <<>>,
     val |-> [i \in 1..Len(d.init) |-> Eval(d.init[i], st)]]

\* A second declaration of an identifier in the same scope is accepted only
\* in C, when both are tentative definitions (no initializer) of one type.
Redeclarable(old, d) ==
    /\ lang = "C"
    /\ ~old.hasInit
    /\ d.init = <<>>
    /\ old.type = d.type
    /\ old.isArray = d.isArray
    /\ old.len = d.len

\* The diagnostic a declaration draws, "" when it is accepted.  zeroOK: the
\* compiler accepts zero-length arrays (an extension; ISO C rejects them).
Diagnose(st, d, zeroOK) ==
    CASE d.isArray /\ d.len < 0 -> "size of array is negative"
      [] d.isArray /\ d.len = 0 /\ ~zeroOK -> "zero-size array"
      [] d.isArray /\ d.len > 0 /\ d.len * SizeofType(d.type) > MaxObjectSize ->
            "size of array is too large"
      [] OTHER ->
            IF d.id \in DOMAIN st /\ ~Redeclarable(st[d.id], d)
            THEN "redefinition" ELSE ""

\* The symbol table after an accepted declaration.
Declare(st, d) ==
    IF d.id \in DOMAIN st THEN st ELSE (d.id :> Object(d, st)) @@ st

RECURSIVE Compile(_, _, _)
Compile(st, ds, zeroOK) ==
    IF ds = <<>> THEN [why |-> "", st |-> st]
    ELSE LET why == Diagnose(st, Head(ds), zeroOK) IN
         IF why # "" THEN [why |-> why, st |-> st]
         ELSE Compile(Declare(st, Head(ds)), Tail(ds), zeroOK)

\* What the compiler can make of a list of declarations: one outcome, or two
\* when it depends on whether zero-length arrays are accepted.
Outcomes(ds) == { Compile(symtab, ds, zeroOK) : zeroOK \in BOOLEAN }

\* The compiler translates one use of a macro at file scope.
Translate(g) ==
    /\ \E r \in Outcomes(Expand(g)) :
         IF r.why = ""
         THEN /\ symtab' = r.st
              /\ gens' = Append(gens, g)
              /\ UNCHANGED <<pc, diag>>
         ELSE /\ pc' = "failed"
              /\ diag' = [kind |-> g.kind, name |-> g.name, why |-> r.why]
              /\ UNCHANGED <<symtab, gens>>
    /\ UNCHANGED <<lang, abi, created, touched>>

UseThread ==
    /\ pc = "compile"
    /\ Len(gens) < MaxDecls
    /\ \E name \in Names, stack_words \in Counts, priority_level \in Priorities :
         Translate(Invocation("thread", name, stack_words, "", priority_level))

UseMessageQueue ==
    /\ pc = "compile"
    /\ Len(gens) < MaxDecls
    /\ \E name \in Names, queue_size \in Counts, type \in ElemTypes :
         Translate(Invocation("queue", name, queue_size, type, 0))

UseMutex ==
    /\ pc = "compile"
    /\ Len(gens) < MaxDecls
    /\ \E name \in Names : Translate(Invocation("mutex", name, 0, "", 0))

UseSemaphore ==
    /\ pc = "compile"
    /\ Len(gens) < MaxDecls
    /\ \E name \in Names : Translate(Invocation("semaphore", name, 0, "", 0))

UseTimer ==
    /\ pc = "compile"
    /\ Len(gens) < MaxDecls
    /\ \E name \in Names : Translate(Invocation("timer", name, 0, "", 0))

UseMemoryPool ==
    /\ pc = "compile"
    /\ Len(gens) < MaxDecls
    /\ \E name \in Names, pool_size \in Counts, type \in ElemTypes :
         Translate(Invocation("pool", name, pool_size, type, 0))

\* The translation unit ends without a diagnostic; the program starts.
Start ==
    /\ pc = "compile"
    /\ pc' = "run"
    /\ UNCHANGED <<lang, abi, symtab, gens, diag, created, touched>>

----------------------------------------------------------------------------
(* The running program and the RTOS *)

\* The attributes records of the program.
AttrIds == { id \in DOMAIN symtab : symtab[id].hasInit }

\* The objects a descriptor hands to the RTOS.
Referenced(attr) ==
    { symtab[attr].val[i].s :
        i \in { j \in DOMAIN symtab[attr].val : symtab[attr].val[j].k = "ptr" } }

\* osThreadNew, osMessageQueueNew, osMutexNew, osTimerNew, osMemoryPoolNew
\* called with &attr: the RTOS sets up the control block named there.
osNew ==
    /\ pc = "run"
    /\ \E attr \in AttrIds :
         /\ symtab[attr].type # "osSemaphoreAttr_t"
         /\ \A c \in created : c.attr # attr
         /\ created' = created \cup
                {[attr |-> attr, max_count |-> 0, initial_count |-> 0]}
         /\ touched' = symtab[attr].val[3].s
    /\ UNCHANGED <<pc, lang, abi, symtab, gens, diag>>

\* osSemaphoreNew(max_count, initial_count, &attr)
osSemaphoreNew ==
    /\ pc = "run"
    /\ \E attr \in AttrIds, max_count \in SemCounts, initial_count \in SemCounts :
         /\ symtab[attr].type = "osSemaphoreAttr_t"
         /\ initial_count <= max_count
         /\ \A c \in created : c.attr # attr
         /\ created' = created \cup
                {[attr |-> attr, max_count |-> max_count,
                  initial_count |-> initial_count]}
         /\ touched' = symtab[attr].val[3].s
    /\ UNCHANGED <<pc, lang, abi, symtab, gens, diag>>

\* The objects the RTOS may write for a created resource: what its descriptor
\* refers to, and the descriptor itself unless it is const.
Writable(attr) ==
    Referenced(attr) \cup (IF symtab[attr].isConst THEN {} ELSE {attr})

\* Any RTOS operation on a created resource: it writes one of its objects.
RtosWrite ==
    /\ pc = "run"
    /\ \E c \in created : \E id \in Writable(c.attr) :
         /\ touched' = id
         /\ symtab' = IF symtab[id].hasInit
                       THEN [symtab EXCEPT ![id].val[2] =
                                [k |-> "int", s |-> "", n |-> 1]]
                       ELSE symtab
    /\ UNCHANGED <<pc, lang, abi, gens, diag, created>>

----------------------------------------------------------------------------

NoDiag == [kind |-> "", name |-> "", why |-> ""]

Init ==
    /\ pc = "compile"
    /\ lang \in {"C", "C++"}
    /\ abi \in Targets
    /\ symtab = [id \in {} |-> 0]
    /\ gens = <<>>
    /\ diag = NoDiag
    /\ created = {}
    /\ touched = ""

Next ==
    \/ UseThread
    \/ UseMessageQueue
    \/ UseMutex
    \/ UseSemaphore
    \/ UseTimer
    \/ UseMemoryPool
    \/ Start
    \/ osNew
    \/ osSemaphoreNew
    \/ RtosWrite

Spec == Init /\ [][Next]_vars

----------------------------------------------------------------------------
(* Properties *)

Accepted == { gens[i] : i \in 1..Len(gens) }

\* The identifiers an invocation declares.
Idents(g) == { Expand(g)[i].id : i \in DOMAIN Expand(g) }

\* The storage regions (arrays) an invocation declares.
StorageIds(g) == { Expand(g)[i].id : i \in { j \in DOMAIN Expand(g) : Expand(g)[j].isArray } }

Attr(g) == symtab[Paste(g.name, "_attributes")]

IntV(n) == [k |-> "int", s |-> "", n |-> n]
PtrV(id) == [k |-> "ptr", s |-> id, n |-> 0]
StrV(str) == [k |-> "str", s |-> str, n |-> 0]

CbType(kind) ==
    CASE kind = "thread"    -> "StaticTask_t"
      [] kind = "queue"     -> "StaticQueue_t"
      [] kind = "mutex"     -> "StaticSemaphore_t"
      [] kind = "semaphore" -> "StaticSemaphore_t"
      [] kind = "timer"     -> "StaticTimer_t"
      [] kind = "pool"      -> "StaticMemoryPool_t"

StorageSuffix(kind) ==
    CASE kind = "thread" -> "_stack"
      [] kind = "queue"  -> "_queue_mem"
      [] kind = "pool"   -> "_mem"

Sized == {"thread", "queue", "pool"}

\* C1: two accepted invocations with distinct logical names declare disjoint
\* sets of identifiers (stated for the invocations whose storage regions are
\* not empty, so that it does not rest on zero-length arrays).
C1_DistinctNamesDisjoint ==
    \A g \in Accepted, h \in Accepted :
        (/\ g.name # h.name
         /\ \A id \in StorageIds(g) \cup StorageIds(h) : symtab[id].len > 0)
        => Idents(g) \cap Idents(h) = {}

\* C2: for every accepted queue or pool with a non-negative count, the storage
\* region and the storage-size field are both exactly count * sizeof(type).
C2_StorageIsProduct ==
    \A g \in Accepted :
        (g.kind \in {"queue", "pool"} /\ g.count >= 0) =>
            /\ symtab[Paste(g.name, StorageSuffix(g.kind))].len
                  = g.count * SizeofType(g.type)
            /\ Attr(g).val[6] = IntV(g.count * SizeofType(g.type))

\* C3: for every kind, the record's control-block reference is name_cb, an
\* object of the kind's control-block type that no other accepted invocation
\* declares, and the control-block size field is the size of that object.
C3_ControlBlockMatches ==
    \A g \in Accepted :
        LET cb == Paste(g.name, "_cb") IN
        /\ Attr(g).val[3] = PtrV(cb)
        /\ cb \in Idents(g)
        /\ cb \in DOMAIN symtab
        /\ symtab[cb].type = CbType(g.kind)
        /\ ~symtab[cb].isArray
        /\ Attr(g).val[4] = IntV(abi[CbType(g.kind)])
        /\ \A h \in Accepted : h # g => cb \notin Idents(h)

W3_ControlBlockMatches ==
    /\ pc = "run"
    /\ \E g \in Accepted, h \in Accepted :
         /\ g.kind = "timer" /\ h.kind = "mutex"
         /\ abi[CbType(g.kind)] # abi[CbType(h.kind)]
    /\ \E c \in created : symtab[c.attr].type = "osTimerAttr_t"

\* C4: a thread, queue or pool record refers to the one storage region its
\* invocation declares and gives that region's size in bytes; a mutex or timer
\* declares no storage and its record has none; a semaphore record has the
\* four fields name, 0, control block, control-block size and no count, and
\* the counts of a created semaphore are those given to osSemaphoreNew.
C4_StorageMatches ==
    /\ \A g \in Accepted :
        IF g.kind \in Sized
        THEN LET mem == Paste(g.name, StorageSuffix(g.kind)) IN
             /\ StorageIds(g) = {mem}
             /\ mem \in DOMAIN symtab
             /\ Attr(g).val[5] = PtrV(mem)
             /\ Attr(g).val[6] = IntV(symtab[mem].len * SizeofType(symtab[mem].type))
        ELSE /\ StorageIds(g) = {}
             /\ Len(Attr(g).val) = 4
             /\ g.kind = "semaphore" =>
                  /\ g.count = 0
                  /\ << Attr(g).val[1].k, Attr(g).val[2], Attr(g).val[3].k >>
                        = << "str", IntV(0), "ptr" >>
                  /\ Attr(g).val[4] = IntV(abi["StaticSemaphore_t"])
    /\ \A c \in created :
        symtab[c.attr].type = "osSemaphoreAttr_t" =>
            c.max_count \in SemCounts /\ c.initial_count \in SemCounts

W4_StorageMatches ==
    /\ pc = "run"
    /\ \E g \in Accepted : g.kind = "pool" /\ g.count = 8 /\ g.type = "uint32_t"
    /\ \E g \in Accepted : g.kind = "semaphore"
    /\ \E c \in created :
         /\ symtab[c.attr].type = "osSemaphoreAttr_t"
         /\ c.max_count = 5 /\ c.initial_count = 1

\* C5: every record lists its fields in the order of the RTOS layout.
C5_FieldOrder ==
    \A g \in Accepted :
        LET cb == Paste(g.name, "_cb")
            cbsize == IntV(ObjSize(symtab[cb]))
        IN
        CASE g.kind = "thread" ->
               Attr(g).val = << StrV(g.name), IntV(0), PtrV(cb), cbsize,
                                PtrV(Paste(g.name, "_stack")),
                                IntV(ObjSize(symtab[Paste(g.name, "_stack")])),
                                IntV(g.prio), IntV(0), IntV(0) >>
          [] g.kind = "queue" ->
               Attr(g).val = << StrV(g.name), IntV(0), PtrV(cb), cbsize,
                                PtrV(Paste(g.name, "_queue_mem")),
                                IntV(ObjSize(symtab[Paste(g.name, "_queue_mem")])) >>
          [] g.kind = "pool" ->
               Attr(g).val = << StrV(g.name), IntV(0), PtrV(cb), cbsize,
                                PtrV(Paste(g.name, "_mem")),
                                IntV(ObjSize(symtab[Paste(g.name, "_mem")])) >>
          [] g.kind = "mutex" ->
               Attr(g).val = << StrV(g.name),
                                [k |-> "enum", s |-> "osMutexPrioInherit", n |-> 0],
                                PtrV(cb), cbsize >>
          [] g.kind \in {"semaphore", "timer"} ->
               Attr(g).val = << StrV(g.name), IntV(0), PtrV(cb), cbsize >>

W5_FieldOrder ==
    \E g \in Accepted, h \in Accepted :
        /\ g.kind = "thread" /\ h.kind = "mutex"
        /\ Attr(g).val[3].k = "ptr" /\ Attr(g).val[7] = IntV(24)
        /\ Attr(h).val[2].k = "enum"

\* C6: a thread's stack region holds exactly stack_words words, the priority
\* field is priority_level and the three reserved fields are 0.
C6_ThreadDescriptor ==
    \A g \in Accepted :
        g.kind = "thread" =>
            LET stack == symtab[Paste(g.name, "_stack")] IN
            /\ stack.isArray
            /\ stack.type = "StackType_t"
            /\ stack.len = g.count
            /\ Attr(g).val[7] = IntV(g.prio)
            /\ Attr(g).val[2] = IntV(0)
            /\ Attr(g).val[8] = IntV(0)
            /\ Attr(g).val[9] = IntV(0)

W6_ThreadDescriptor ==
    \E g \in Accepted, h \in Accepted :
        /\ g.kind = "thread" /\ g.count = 256 /\ g.prio = 24
        /\ symtab[Paste(g.name, "_stack")].len = 256
        /\ h.kind = "thread" /\ h.prio = 8

\* C7: no thread, queue or pool with a negative sizing argument is accepted.
C7_NegativeRejected ==
    \A g \in Accepted : g.kind \in Sized => g.count >= 0

\* C8: no two accepted invocations, of whatever kinds, have the same logical
\* name, and each accepted invocation has an attributes record of its own.
C8_DuplicateNameRejected ==
    /\ \A i \in 1..Len(gens), j \in 1..Len(gens) :
          i # j => gens[i].name # gens[j].name
    /\ Cardinality(AttrIds) = Len(gens)
    /\ \A g \in Accepted :
          Cardinality({ id \in AttrIds : symtab[id].val[1] = StrV(g.name) }) = 1

W8_DuplicateNameRejected ==
    /\ pc = "failed"
    /\ diag.why = "redefinition"
    /\ diag.kind = "timer"
    /\ \E g \in Accepted : g.kind = "mutex" /\ g.name = diag.name

\* C9: a declared object keeps its type, size and (for an attributes record)
\* every field in every later step; the RTOS writes only control blocks and
\* storage regions; creation calls are made only by the running program.
C9_DescriptorsFrozen ==
    [][ /\ \A id \in DOMAIN symtab : id \in DOMAIN symtab' /\ symtab'[id] = symtab[id]
        /\ touched' # touched => ~symtab'[touched'].hasInit
        /\ created' # created => (pc = "run" /\ gens' = gens)
        /\ gens' # gens => created' = created ]_vars

W9_DescriptorsFrozen ==
    /\ pc = "run"
    /\ Len(gens) = 2
    /\ Cardinality(created) = 2
    /\ touched = "a_queue_mem"

====
